---- MODULE Spec2Model ----
(***************************************************************************)
(* Reactor training simulator: the physics engine, the per-session         *)
(* stepping thread and the process-wide session registry of                *)
(* simulator/reactor_logic.py, and the feedback and grading methods of     *)
(* EnhancedAIMentor in simulator/ai_mentor.py.                             *)
(*                                                                         *)
(* Number representation.  The source computes in IEEE doubles; the model  *)
(* computes in scaled integers, rounding every stored result down:         *)
(*   power_level            1 MW                                           *)
(*   neutron_flux           1e11 n/cm2.s (so that power = flux, line 102)  *)
(*   temperature            0.01 degC                                      *)
(*   pressure               0.1 bar                                        *)
(*   control_rod_position,                                                 *)
(*   coolant_flow_rate      1 percent                                      *)
(*   simulation_time        one time_step (0.1 s)                          *)
(* Fields of ReactorState that no statement of the engine reads or writes  *)
(* after construction (is_critical, is_stable, safety_systems, the three   *)
(* limits, coolant_temperature_in) are definitions, not record fields;     *)
(* coolant_temperature_out and real_world_time are written by a step and   *)
(* read by nothing, and are left out.                                      *)
(***************************************************************************)
EXTENDS Integers, Sequences, FiniteSets, TLC

\* ------------------------------------------------------------------ bounds
MaxSteps == 3          \* physics steps taken per simulation object
MaxActions == 2        \* actions applied per simulation object
FluxCap == 250000      \* a step is taken only from |neutron_flux| <= FluxCap
TempCap == 500000      \* ... and |temperature| <= TempCap (fits 32-bit ints)

\* ------------------------------------------------- ReactorState (dataclass)
power_limit == 100
temp_limit == 350
pressure_limit == 170
coolant_temperature_in == 26500

Abs(x) == IF x < 0 THEN -x ELSE x
Max2(a, b) == IF a >= b THEN a ELSE b
Min2(a, b) == IF a <= b THEN a ELSE b

\* floor(a * b / d) for d > 0 without forming a * b
MulDiv(a, b, d) == (a \div d) * b + ((a % d) * b) \div d

\* ReactorState(): the dataclass defaults
ReactorState ==
  [ power_level |-> 20,
    temperature |-> 28000,
    pressure |-> 1550,
    neutron_flux |-> 100,
    control_rod_position |-> 70,
    coolant_flow_rate |-> 100,
    scram_status |-> FALSE,
    emergency_level |-> 0,
    simulation_time |-> 0 ]

\* create_session: the initial_conditions table; an unknown scenario_type
\* gets {} and keeps the defaults
Scenarios == {"startup", "transient", "emergency", "other"}

initial_conditions(scenario_type) ==
  CASE scenario_type = "startup" ->
         [ReactorState EXCEPT !.power_level = 1, !.temperature = 10000,
                              !.control_rod_position = 30,
                              !.coolant_flow_rate = 50]
    [] scenario_type = "transient" ->
         [ReactorState EXCEPT !.power_level = 50, !.temperature = 30000,
                              !.control_rod_position = 60,
                              !.coolant_flow_rate = 80]
    [] scenario_type = "emergency" ->
         [ReactorState EXCEPT !.power_level = 80, !.temperature = 32000,
                              !.control_rod_position = 40,
                              !.coolant_flow_rate = 60,
                              !.pressure = 1650]
    [] OTHER -> ReactorState

\* ------------------------------------------------------ calculate_physics
\* 200 * (1 + total_reactivity * time_step / NEUTRON_LIFETIME)
Factor200(s) ==
  200 + 40 * (s.control_rod_position - 50) - (s.temperature - 30000)

\* lines 93-99
UpdateFlux(s) ==
  [s EXCEPT !.neutron_flux = MulDiv(s.neutron_flux, Factor200(s), 200)]

\* line 102
UpdatePower(s) == [s EXCEPT !.power_level = s.neutron_flux]

\* lines 105-108: (heat_generation - cooling) * time_step, in 0.01 degC
UpdateTemperature(s) ==
  [s EXCEPT !.temperature =
     s.temperature + (s.power_level + s.power_level \div 2)
       - MulDiv(s.temperature - coolant_temperature_in,
                3 * s.coolant_flow_rate, 10000)]

\* line 116, in 0.1 bar
UpdatePressure(s) ==
  [s EXCEPT !.pressure =
     1500 + (s.temperature - 28000) \div 20 + 2 * (s.power_level - 20)]

\* ---------------------------------------------------- check_safety_limits
\* line 128
SafetyReset(s) == [s EXCEPT !.emergency_level = 0]

\* lines 131-136
SafetyWarn(s) ==
  LET l1 == IF s.power_level > (power_limit * 9) \div 10
            THEN Max2(s.emergency_level, 1) ELSE s.emergency_level
      l2 == IF s.temperature > temp_limit * 85 THEN Max2(l1, 2) ELSE l1
      l3 == IF s.pressure > pressure_limit * 9 THEN Max2(l2, 2) ELSE l2
  IN  [s EXCEPT !.emergency_level = l3]

\* lines 139-142
SafetyCritical(s) ==
  [s EXCEPT !.emergency_level =
     IF s.temperature > temp_limit * 95
          \/ s.pressure > (pressure_limit * 95) \div 10
     THEN 3 ELSE s.emergency_level]

OverHardLimit(s) ==
  s.temperature > temp_limit * 100 \/ s.pressure > pressure_limit * 10

\* lines 143-145
SafetyTrip(s) ==
  IF OverHardLimit(s)
  THEN [s EXCEPT !.emergency_level = 4, !.scram_status = TRUE]
  ELSE s

check_safety_limits(s) ==
  SafetyTrip(SafetyCritical(SafetyWarn(SafetyReset(s))))

\* line 122 leaving simulation_time as it was
AdvanceTime_Held(s) == s

\* line 122
AdvanceTime(s) == [s EXCEPT !.simulation_time = s.simulation_time + 1]

calculate_physics(s) ==
  AdvanceTime(check_safety_limits(
    UpdatePressure(UpdateTemperature(UpdatePower(UpdateFlux(s))))))

\* ------------------------------------------------- apply_student_action
Kinds ==
  {"control_rod", "coolant_flow", "scram", "reset_scram", "power_demand",
   "vent"}

\* the (action_type, value) pairs a caller submits
ActionInputs ==
  ({"control_rod", "coolant_flow"} \X {-20, 35, 60, 80, 120, 200})
    \cup ({"scram", "reset_scram", "vent"} \X {0})
    \cup ({"power_demand"} \X {50, 5000})

\* the pairs submitted in the statement-level specification
RacingInputs ==
  {<<"control_rod", 120>>, <<"coolant_flow", -20>>, <<"scram", 0>>,
   <<"reset_scram", 0>>, <<"power_demand", 5000>>, <<"vent", 0>>}

\* lines 152-157: the record appended to action_history
ActionRecord(time, action_type, value, before) ==
  [time |-> time, action |-> action_type, value |-> value,
   state_before |-> before]

\* line 161 without the max(0, ...)
SetControlRod_NoFloor(s, value) ==
  [s EXCEPT !.control_rod_position = Min2(100, value)]

\* line 161
SetControlRod(s, value) ==
  [s EXCEPT !.control_rod_position = Max2(0, Min2(100, value))]

\* line 163
SetCoolantFlow(s, value) ==
  [s EXCEPT !.coolant_flow_rate = Max2(0, Min2(150, value))]

\* line 165
ScramFlag(s) == [s EXCEPT !.scram_status = TRUE]

\* line 166
ScramRods(s) == [s EXCEPT !.control_rod_position = 0]

\* line 168
ResetScram(s) == [s EXCEPT !.scram_status = FALSE]

\* lines 173 and 175: which branch of the autopilot is taken
\* (power < target * 0.95, power > target * 1.05)
\* for an integer p:  p < x  iff  p < ceiling(x),  p > x  iff  p > floor(x)
PowerDemandBranch(s, target_power) ==
  IF s.power_level < -((-(target_power * 95)) \div 100) THEN "raise"
  ELSE IF s.power_level > (target_power * 105) \div 100 THEN "lower"
  ELSE "hold"

\* lines 174 and 176 without the min(100, ...) and the max(0, ...)
PowerDemandRods_Unbounded(branch, rods) ==
  CASE branch = "raise" -> rods + 5
    [] branch = "lower" -> rods - 5
    [] OTHER -> rods

\* lines 174 and 176: the value stored, from the rod position read
PowerDemandRods(branch, rods) ==
  CASE branch = "raise" -> Min2(100, rods + 5)
    [] branch = "lower" -> Max2(0, rods - 5)
    [] OTHER -> rods

\* lines 159-176, run without interruption
ApplyToState(s, action_type, value) ==
  CASE action_type = "control_rod" -> SetControlRod(s, value)
    [] action_type = "coolant_flow" -> SetCoolantFlow(s, value)
    [] action_type = "scram" -> ScramRods(ScramFlag(s))
    [] action_type = "reset_scram" -> ResetScram(s)
    [] action_type = "power_demand" ->
         [s EXCEPT !.control_rod_position =
            PowerDemandRods(PowerDemandBranch(s, value),
                            s.control_rod_position)]
    [] OTHER -> s

\* ---------------------------------------------------------------- state
Ids == {"s1", "s2"}
Callers == {"c1", "c2"}
StepsWatched == 1      \* passes of _simulation_loop followed per object
ActionsWatched == 1    \* requests followed statement by statement per caller
ActionsRaced == 2      \* apply_student_action calls followed when two race
Objs == {1, 2}
None == 0

VARIABLES
  sessions,        \* _simulation_sessions: session id -> object, or None
  nobj,            \* ReactorSimulation objects constructed so far
  state,           \* sim.state of each object
  running,         \* sim.running
  thread,          \* sim.simulation_thread: "none", "alive", "exited"
  lpc,             \* where each stepping thread is in _simulation_loop
  action_history,  \* sim.action_history
  cpc,             \* where each caller thread is
  loc,             \* each caller's local variables
  formed,          \* history: the states each object had between operations
  last,            \* history: the last registry operation on each id:
                   \* "never" (none yet), "stored" and the object,
                   \* "destroyed" (line 270 ran), "absent" (line 268 found
                   \* nothing)
  mentor,          \* the EnhancedAIMentor object (student_profiles,
                   \* feedback_history); the arguments a caller holds for
                   \* one of its methods (given); how many calls were made
                   \* and what the last one was given and gave (call)
  detached         \* for each object, where in _simulation_loop each
                   \* thread is that start_simulation created, that has not
                   \* ended, and that sim.simulation_thread no longer
                   \* refers to (line 201 replaced the reference)

vars ==
  <<sessions, nobj, state, running, thread, lpc, action_history, cpc, loc,
    formed, last, mentor, detached>>

\* to_dict (dataclasses.asdict) copies the fields one after another, in the
\* order the dataclass declares them.  The model copies them in three runs
\* of adjacent fields; each of its behaviours is one of the field-by-field
\* copy, in which the thread is not interrupted inside a run.
FieldOrder ==
  <<{"power_level", "temperature", "pressure", "neutron_flux"},
    {"control_rod_position", "coolant_flow_rate", "scram_status"},
    {"emergency_level", "simulation_time"}>>

Did(op, o) == [op |-> op, obj |-> o]

\* ai_mentor.py lines 11-14: the mentor as constructed (knowledge_base and
\* learning_objectives are literals, never assigned again), with no method
\* called yet
NewMentor ==
  [student_profiles |-> <<>>, feedback_history |-> <<>>,
   given |-> [for |-> "none"], calls |-> 0, call |-> [method |-> "none"]]

\* no thread is running without a reference
NoDetached == [o \in Objs |-> <<>>]

NoLocals ==
  [id |-> "", obj |-> None, kind |-> "", value |-> 0, time |-> 0,
   nread |-> 0, snap |-> <<>>, rods |-> 0, branch |-> "", result |-> None,
   seen |-> "", overlap |-> FALSE]

\* one object exists, built and registered by create_session("s1", sc)
\* and not yet stepped; no caller is inside a request; the mentor is m
OneSessionWith(s, m) ==
  /\ sessions = [i \in Ids |-> IF i = "s1" THEN 1 ELSE None]
  /\ nobj = 1
  /\ state = [o \in Objs |-> IF o = 1 THEN s ELSE ReactorState]
  /\ running = [o \in Objs |-> o = 1]
  /\ thread = [o \in Objs |-> IF o = 1 THEN "alive" ELSE "none"]
  /\ lpc = [o \in Objs |-> IF o = 1 THEN "loop" ELSE "none"]
  /\ action_history = [o \in Objs |-> <<>>]
  /\ cpc = [t \in Callers |-> "idle"]
  /\ loc = [t \in Callers |-> NoLocals]
  /\ formed = [o \in Objs |-> IF o = 1 THEN {s} ELSE {}]
  /\ last = [i \in Ids |-> IF i = "s1" THEN Did("stored", 1)
                                        ELSE Did("never", None)]
  /\ mentor = m
  /\ detached = NoDetached

OneSession(s) == OneSessionWith(s, NewMentor)

\* a step is modelled only while the numbers stay inside the integer range
InRange(s) ==
  /\ s.simulation_time < MaxSteps
  /\ Abs(s.neutron_flux) <= FluxCap
  /\ Abs(s.temperature) <= TempCap

\* ------------------------------------------------------------ SpecPhys
\* One session; steps and actions each run to completion, one at a time.
InitPhys == \E sc \in Scenarios : OneSession(initial_conditions(sc))

\* one pass of _simulation_loop: calculate_physics, whole
PhysStep ==
  /\ running[1]
  /\ InRange(state[1])
  /\ state' = [state EXCEPT ![1] = calculate_physics(state[1])]
  /\ UNCHANGED <<sessions, nobj, running, thread, lpc, action_history,
                 cpc, loc, formed, last>>
  /\ UNCHANGED <<mentor, detached>>

\* apply_student_action, whole
PhysAction ==
  \E in \in ActionInputs :
    /\ Len(action_history[1]) < MaxActions
    /\ action_history' =
         [action_history EXCEPT ![1] =
            Append(@, ActionRecord(state[1].simulation_time, in[1], in[2],
                                   state[1]))]
    /\ state' = [state EXCEPT ![1] = ApplyToState(state[1], in[1], in[2])]
    /\ UNCHANGED <<sessions, nobj, running, thread, lpc, cpc, loc, formed, last>>
    /\ UNCHANGED <<mentor, detached>>

NextPhys == PhysStep \/ PhysAction

SpecPhys == InitPhys /\ [][NextPhys]_vars

\* ---------------------------------------------------------- SpecSession
\* One session; the stepping thread and the callers' requests interleave
\* statement by statement (nothing in the source locks the State).  A
\* statement that writes one field is one step of the model.

\* the statements of calculate_physics and check_safety_limits, in order
StepStatements ==
  <<"flux", "power", "temp", "press", "reset", "limits", "time">>

StatementEffect(pc, s) ==
  CASE pc = "flux" -> UpdateFlux(s)
    [] pc = "power" -> UpdatePower(s)
    [] pc = "temp" -> UpdateTemperature(s)
    [] pc = "press" -> UpdatePressure(s)
    [] pc = "reset" -> SafetyReset(s)
    [] pc = "limits" -> SafetyTrip(SafetyCritical(SafetyWarn(s)))
    [] pc = "time" -> AdvanceTime(s)

IndexOf(pc) == CHOOSE i \in 1 .. Len(StepStatements) : StepStatements[i] = pc

AfterStatement(pc) ==
  IF IndexOf(pc) = Len(StepStatements) THEN "loop"
  ELSE StepStatements[IndexOf(pc) + 1]

\* calculate_physics has written some field and not yet the last one
StepInFlight(o) ==
  \E i \in 2 .. Len(StepStatements) : lpc[o] = StepStatements[i]

\* apply_student_action is between two of its writes
ActionInFlight(t) == cpc[t] \in {"a_apply", "a_scram2", "a_pd_read", "a_pd_write"}

\* no step and no action is part-way through its writes to object o
Whole(o, l, c, lc) ==
  /\ l[o] \in {"none", "loop", "flux", "exited"}
  /\ \A t \in Callers : lc[t].obj = o => c[t] # "a_scram2"

Remember(o) ==
  formed' = [formed EXCEPT ![o] =
               IF Whole(o, lpc', cpc', loc') THEN @ \cup {state'[o]} ELSE @]

InitSession == \E sc \in Scenarios : OneSession(initial_conditions(sc))

\* lines 215 and 213: time.sleep(self.time_step) after a pass, then the
\* test of while self.running
LoopTest(o) ==
  /\ lpc[o] = "loop"
  /\ IF running[o]
     THEN /\ InRange(state[o])
          /\ state[o].simulation_time < StepsWatched
          /\ lpc' = [lpc EXCEPT ![o] = "flux"]
          /\ UNCHANGED thread
     ELSE /\ lpc' = [lpc EXCEPT ![o] = "exited"]
          /\ thread' = [thread EXCEPT ![o] = "exited"]
  /\ UNCHANGED <<sessions, nobj, state, running, action_history, cpc, loc,
                 formed, last>>
  /\ UNCHANGED <<mentor, detached>>

\* line 214: one statement of calculate_physics
LoopStatement(o) ==
  /\ lpc[o] \in {StepStatements[i] : i \in 1 .. Len(StepStatements)}
  /\ state' = [state EXCEPT ![o] = StatementEffect(lpc[o], @)]
  /\ lpc' = [lpc EXCEPT ![o] = AfterStatement(lpc[o])]
  /\ UNCHANGED <<sessions, nobj, running, thread, action_history, cpc, loc, last>>
  /\ Remember(o)
  /\ UNCHANGED <<mentor, detached>>

\* api_control_reactor: get_session found the object; apply_student_action
\* is entered and line 153 reads s.simulation_time
BeginActionWithin(t, o, n) ==
  \E in \in RacingInputs :
    /\ cpc[t] = "idle"
    /\ sessions["s1"] = o
    /\ Len(action_history[o]) + Cardinality({u \in Callers : cpc[u] \in
         {"a_snap", "a_append"} /\ loc[u].obj = o}) < n
    /\ cpc' = [cpc EXCEPT ![t] = "a_snap"]
    /\ loc' = [loc EXCEPT ![t] =
                 [NoLocals EXCEPT !.obj = o, !.kind = in[1], !.value = in[2],
                                  !.time = state[o].simulation_time]]
    /\ UNCHANGED <<sessions, nobj, state, running, thread, lpc,
                   action_history, formed, last>>
    /\ UNCHANGED <<mentor, detached>>

\* api_get_state: get_session found the object; get_state_dict is entered
BeginPoll(t, o) ==
  /\ cpc[t] = "idle"
  /\ sessions["s1"] = o
  /\ cpc' = [cpc EXCEPT ![t] = "g_snap"]
  /\ loc' = [loc EXCEPT ![t] = [NoLocals EXCEPT !.obj = o]]
  /\ UNCHANGED <<sessions, nobj, state, running, thread, lpc,
                 action_history, formed, last>>
  /\ UNCHANGED <<mentor, detached>>

\* to_dict copies the next field (line 54, for line 156 or line 219)
CopyField(t) ==
  /\ cpc[t] \in {"a_snap", "g_snap"}
  /\ LET n == loc[t].nread + 1
         f == FieldOrder[n]
     IN  /\ loc' = [loc EXCEPT ![t].nread = n,
                               ![t].snap =
                                 @ @@ [x \in f |-> state[loc[t].obj][x]]]
         /\ cpc' = [cpc EXCEPT ![t] =
                      IF n < Len(FieldOrder) THEN @
                      ELSE IF @ = "a_snap" THEN "a_append" ELSE "g_done"]
  /\ UNCHANGED <<sessions, nobj, state, running, thread, lpc,
                 action_history, formed, last>>
  /\ UNCHANGED <<mentor, detached>>

\* line 219 returns the dictionary
EndPoll(t) ==
  /\ cpc[t] = "g_done"
  /\ cpc' = [cpc EXCEPT ![t] = "idle"]
  /\ loc' = [loc EXCEPT ![t] = NoLocals]
  /\ UNCHANGED <<sessions, nobj, state, running, thread, lpc,
                 action_history, formed, last>>
  /\ UNCHANGED <<mentor, detached>>

\* line 152: action_history.append
AppendRecord(t) ==
  /\ cpc[t] = "a_append"
  /\ action_history' =
       [action_history EXCEPT ![loc[t].obj] =
          Append(@, ActionRecord(loc[t].time, loc[t].kind, loc[t].value,
                                 loc[t].snap))]
  /\ cpc' = [cpc EXCEPT ![t] = "a_apply"]
  /\ UNCHANGED <<sessions, nobj, state, running, thread, lpc, loc, formed, last>>
  /\ UNCHANGED <<mentor, detached>>

\* lines 160-173: the branch on action_type and its first statement
ApplyFirst(t) ==
  /\ cpc[t] = "a_apply"
  /\ LET o == loc[t].obj
         k == loc[t].kind
     IN  /\ state' = [state EXCEPT ![o] =
                        CASE k = "control_rod" -> SetControlRod(@, loc[t].value)
                          [] k = "coolant_flow" -> SetCoolantFlow(@, loc[t].value)
                          [] k = "scram" -> ScramFlag(@)
                          [] k = "reset_scram" -> ResetScram(@)
                          [] OTHER -> @]
         /\ cpc' = [cpc EXCEPT ![t] =
                      CASE k = "scram" -> "a_scram2"
                        [] k = "power_demand" -> "a_pd_read"
                        [] OTHER -> "idle"]
         /\ loc' = [loc EXCEPT ![t] =
                      IF k = "power_demand"
                      THEN [@ EXCEPT !.branch =
                              PowerDemandBranch(state[o], loc[t].value)]
                      ELSE IF k = "scram" THEN @ ELSE NoLocals]
  /\ UNCHANGED <<sessions, nobj, running, thread, lpc, action_history, last>>
  /\ Remember(loc[t].obj)
  /\ UNCHANGED <<mentor, detached>>

\* line 166
ApplyScramRods(t) ==
  /\ cpc[t] = "a_scram2"
  /\ state' = [state EXCEPT ![loc[t].obj] = ScramRods(@)]
  /\ cpc' = [cpc EXCEPT ![t] = "idle"]
  /\ loc' = [loc EXCEPT ![t] = NoLocals]
  /\ UNCHANGED <<sessions, nobj, running, thread, lpc, action_history, last>>
  /\ Remember(loc[t].obj)
  /\ UNCHANGED <<mentor, detached>>

\* lines 174, 176: the right-hand side reads s.control_rod_position
PowerDemandRead(t) ==
  /\ cpc[t] = "a_pd_read"
  /\ loc' = [loc EXCEPT ![t].rods = state[loc[t].obj].control_rod_position]
  /\ cpc' = [cpc EXCEPT ![t] = "a_pd_write"]
  /\ UNCHANGED <<sessions, nobj, state, running, thread, lpc,
                 action_history, formed, last>>
  /\ UNCHANGED <<mentor, detached>>

\* lines 174, 176: the assignment
PowerDemandWrite(t) ==
  /\ cpc[t] = "a_pd_write"
  /\ state' = [state EXCEPT ![loc[t].obj].control_rod_position =
                 PowerDemandRods(loc[t].branch, loc[t].rods)]
  /\ cpc' = [cpc EXCEPT ![t] = "idle"]
  /\ loc' = [loc EXCEPT ![t] = NoLocals]
  /\ UNCHANGED <<sessions, nobj, running, thread, lpc, action_history, last>>
  /\ Remember(loc[t].obj)
  /\ UNCHANGED <<mentor, detached>>

BeginAction(t, o) == BeginActionWithin(t, o, ActionsWatched)

\* the callers with a request in the statement-level specification
Racers == {"c1"}

NextSession ==
  \/ \E o \in Objs : LoopTest(o) \/ LoopStatement(o)
  \/ \E t \in Racers, o \in Objs : BeginAction(t, o) \/ BeginPoll(t, o)
  \/ \E t \in Racers :
       \/ CopyField(t) \/ EndPoll(t) \/ AppendRecord(t) \/ ApplyFirst(t)
       \/ ApplyScramRods(t) \/ PowerDemandRead(t) \/ PowerDemandWrite(t)

SpecSession == InitSession /\ [][NextSession]_vars

\* ------------------------------------------------------------------ Spec
\* The registry: callers create, look up and destroy sessions while every
\* started object's thread steps.  An operation on the dict takes one step
\* (the interpreter runs one dict operation at a time); calculate_physics
\* is one step here, and is taken apart in SpecSession.

\* line 263: _simulation_sessions.get(session_id)
RegistryGet(reg, id) == reg[id]

\* line 257 as a rebuild of the dict from the one new entry
RegistryPut_Rebuild(reg, id, o) == [i \in Ids |-> IF i = id THEN o ELSE None]

\* line 257: _simulation_sessions[session_id] = sim
RegistryPut(reg, id, o) == [reg EXCEPT ![id] = o]

\* line 270 left out
RegistryDel_Skip(reg, id) == reg

\* line 270: del _simulation_sessions[session_id]
RegistryDel(reg, id) == [reg EXCEPT ![id] = None]

Init ==
  /\ sessions = [i \in Ids |-> None]
  /\ nobj = 0
  /\ state = [o \in Objs |-> ReactorState]
  /\ running = [o \in Objs |-> FALSE]
  /\ thread = [o \in Objs |-> "none"]
  /\ lpc = [o \in Objs |-> "none"]
  /\ action_history = [o \in Objs |-> <<>>]
  /\ cpc = [t \in Callers |-> "idle"]
  /\ loc = [t \in Callers |-> NoLocals]
  /\ formed = [o \in Objs |-> {}]
  /\ last = [i \in Ids |-> Did("never", None)]
  /\ mentor = NewMentor
  /\ detached = NoDetached

\* a caller thread takes its next request when the last one has returned
\* ("idle"; loc keeps what it returned) or has ended in an exception
Ready(t) == cpc[t] \in {"idle", "raised"}

\* lines 253-255: ReactorSimulation(conditions), then start_simulation on
\* the new object, which no other thread can reach yet
CreateConstruct(t, id, sc) ==
  /\ Ready(t)
  /\ nobj + 1 \in Objs
  /\ LET o == nobj + 1
     IN  /\ nobj' = o
         /\ state' = [state EXCEPT ![o] = initial_conditions(sc)]
         /\ running' = [running EXCEPT ![o] = TRUE]
         /\ thread' = [thread EXCEPT ![o] = "alive"]
         /\ lpc' = [lpc EXCEPT ![o] = "loop"]
         /\ loc' = [loc EXCEPT ![t] =
                      [NoLocals EXCEPT !.id = id, !.obj = o,
                         !.overlap = \E u \in Callers : cpc[u] = "c_store"]]
  /\ cpc' = [cpc EXCEPT ![t] = "c_store"]
  /\ UNCHANGED <<sessions, action_history, formed, last>>
  /\ UNCHANGED <<mentor, detached>>

\* lines 257-258: the store, and the return of the object
CreateStore(t) ==
  /\ cpc[t] = "c_store"
  /\ sessions' = RegistryPut(sessions, loc[t].id, loc[t].obj)
  /\ last' = [last EXCEPT ![loc[t].id] = Did("stored", loc[t].obj)]
  /\ cpc' = [cpc EXCEPT ![t] = "idle"]
  /\ loc' = [loc EXCEPT ![t].kind = "create", ![t].result = loc[t].obj]
  /\ UNCHANGED <<nobj, state, running, thread, lpc, action_history, formed>>
  /\ UNCHANGED <<mentor, detached>>

\* line 263, and the return of what it found; seen is history: what the
\* registry operations before this one left under the id
GetSession(t, id) ==
  /\ Ready(t)
  /\ loc' = [loc EXCEPT ![t] =
               [NoLocals EXCEPT !.id = id, !.kind = "get",
                                !.seen = last[id].op,
                                !.result = RegistryGet(sessions, id)]]
  /\ cpc' = [cpc EXCEPT ![t] = "idle"]
  /\ UNCHANGED <<sessions, nobj, state, running, thread, lpc,
                 action_history, formed, last>>
  /\ UNCHANGED <<mentor, detached>>

\* line 268: if session_id in _simulation_sessions; when it is not, the
\* function returns
DestroyTest(t, id) ==
  /\ Ready(t)
  /\ loc' = [loc EXCEPT ![t] = [NoLocals EXCEPT !.id = id, !.kind = "destroy"]]
  /\ IF sessions[id] # None
     THEN /\ cpc' = [cpc EXCEPT ![t] = "d_stop"]
          /\ UNCHANGED last
     ELSE /\ cpc' = [cpc EXCEPT ![t] = "idle"]
          /\ last' = [last EXCEPT ![id] = Did("absent", None)]
  /\ UNCHANGED <<sessions, nobj, state, running, thread, lpc,
                 action_history, formed>>
  /\ UNCHANGED <<mentor, detached>>

\* line 269: the subscript (KeyError when the key is gone), then
\* stop_simulation line 207
DestroyStop(t) ==
  /\ cpc[t] = "d_stop"
  /\ LET o == sessions[loc[t].id]
     IN  IF o = None
         THEN /\ cpc' = [cpc EXCEPT ![t] = "raised"]
              /\ UNCHANGED <<running, loc>>
         ELSE /\ running' = [running EXCEPT ![o] = FALSE]
              /\ loc' = [loc EXCEPT ![t].obj = o]
              /\ cpc' = [cpc EXCEPT ![t] = "d_join"]
  /\ UNCHANGED <<sessions, nobj, state, thread, lpc, action_history, formed,
                 last>>
  /\ UNCHANGED <<mentor, detached>>

\* line 209 as join(), with no timeout: it returns only once the thread
\* has ended
JoinOutcomes_Untimed(o) ==
  IF thread[o] = "exited" THEN {"joined"} ELSE {}

\* the outcomes of simulation_thread.join(timeout=2), line 209: the thread
\* has ended, or two seconds have passed and it has not
JoinOutcomes(o) ==
  IF thread[o] = "exited" THEN {"joined"} ELSE {"timeout"}

DestroyJoin(t) ==
  /\ cpc[t] = "d_join"
  /\ JoinOutcomes(loc[t].obj) # {}
  /\ cpc' = [cpc EXCEPT ![t] = "d_del"]
  /\ UNCHANGED <<sessions, nobj, state, running, thread, lpc,
                 action_history, loc, formed, last>>
  /\ UNCHANGED <<mentor, detached>>

\* line 270 (KeyError when the key is gone), and the return
DestroyDel(t) ==
  /\ cpc[t] = "d_del"
  /\ IF sessions[loc[t].id] = None
     THEN /\ cpc' = [cpc EXCEPT ![t] = "raised"]
          /\ UNCHANGED <<sessions, last, loc>>
     ELSE /\ sessions' = RegistryDel(sessions, loc[t].id)
          /\ last' = [last EXCEPT ![loc[t].id] = Did("destroyed", None)]
          /\ cpc' = [cpc EXCEPT ![t] = "idle"]
          /\ UNCHANGED loc
  /\ UNCHANGED <<nobj, state, running, thread, lpc, action_history, formed>>
  /\ UNCHANGED <<mentor, detached>>

\* line 214: calculate_physics, whole
LoopStep(o) ==
  /\ lpc[o] = "flux"
  /\ state' = [state EXCEPT ![o] = calculate_physics(@)]
  /\ lpc' = [lpc EXCEPT ![o] = "loop"]
  /\ UNCHANGED <<sessions, nobj, running, thread, action_history, cpc, loc,
                 formed, last>>
  /\ UNCHANGED <<mentor, detached>>

Next ==
  \/ \E t \in Callers, id \in Ids :
       \/ \E sc \in {"startup"} : CreateConstruct(t, id, sc)
       \/ GetSession(t, id)
       \/ DestroyTest(t, id)
  \/ \E t \in Callers :
       \/ CreateStore(t) \/ DestroyStop(t) \/ DestroyJoin(t) \/ DestroyDel(t)
  \/ \E o \in Objs : LoopTest(o) \/ LoopStep(o)

Spec == Init /\ [][Next]_vars

\* The registry with a calling thread that keeps running: a caller inside
\* join (line 209) comes out of it once the thread has ended or the two
\* seconds have passed.  Nothing is assumed of the stepping threads: one may
\* stay inside a step, or in its sleep, for ever.
SpecStop == Spec /\ \A t \in Callers : WF_vars(DestroyJoin(t))

\* -------------------------------------------------------------- SpecTwo
\* Two sessions, each created from a preset and registered under its own
\* id; whole physics steps and whole actions on either of them.

\* self.state as one ReactorState shared by every instance
OwnState_Shared(st, o, s) == [x \in DOMAIN st |-> s]

\* lines 67 and 90: self.state is the instance's own ReactorState, so a
\* method of object o writes the State of o
OwnState(st, o, s) == [st EXCEPT ![o] = s]

\* line 86: self.action_history is the instance's own list
OwnHistory(hs, o, rec) == [hs EXCEPT ![o] = Append(@, rec)]

InitTwo ==
  \E sc1, sc2 \in Scenarios :
    /\ sessions = [i \in Ids |-> IF i = "s1" THEN 1 ELSE 2]
    /\ nobj = 2
    /\ state = [o \in Objs |-> IF o = 1 THEN initial_conditions(sc1)
                                        ELSE initial_conditions(sc2)]
    /\ running = [o \in Objs |-> TRUE]
    /\ thread = [o \in Objs |-> "alive"]
    /\ lpc = [o \in Objs |-> "loop"]
    /\ action_history = [o \in Objs |-> <<>>]
    /\ cpc = [t \in Callers |-> "idle"]
    /\ loc = [t \in Callers |-> NoLocals]
    /\ formed = [o \in Objs |-> {state[o]}]
    /\ last = [i \in Ids |-> Did("stored", sessions[i])]
    /\ mentor = NewMentor
    /\ detached = NoDetached

\* one pass of the loop of object o: calculate_physics, whole
SessionStep(o) ==
  /\ running[o]
  /\ InRange(state[o])
  /\ state[o].simulation_time < StepsWatched
  /\ state' = OwnState(state, o, calculate_physics(state[o]))
  /\ UNCHANGED <<sessions, nobj, running, thread, lpc, action_history,
                 cpc, loc, formed, last>>
  /\ UNCHANGED <<mentor, detached>>

\* apply_student_action on object o, whole
SessionAction(o) ==
  \E in \in RacingInputs :
    /\ Len(action_history[o]) < ActionsWatched
    /\ action_history' =
         OwnHistory(action_history, o,
                    ActionRecord(state[o].simulation_time, in[1], in[2],
                                 state[o]))
    /\ state' = OwnState(state, o, ApplyToState(state[o], in[1], in[2]))
    /\ UNCHANGED <<sessions, nobj, running, thread, lpc, cpc, loc, formed,
                   last>>
    /\ UNCHANGED <<mentor, detached>>

NextTwo == \E o \in Objs : SessionStep(o) \/ SessionAction(o)

SpecTwo == InitTwo /\ [][NextTwo]_vars

\* ---------------------------------------------------------- SpecHistory
\* One session; two request threads inside apply_student_action at the same
\* time (the development server handles each request in its own thread),
\* statement by statement, while the stepping thread takes whole steps.
NextHistory ==
  \/ \E o \in Objs : LoopTest(o) \/ LoopStep(o)
  \/ \E t \in Callers, o \in Objs : BeginActionWithin(t, o, ActionsRaced)
  \/ \E t \in Callers :
       \/ CopyField(t) \/ AppendRecord(t) \/ ApplyFirst(t)
       \/ ApplyScramRods(t) \/ PowerDemandRead(t) \/ PowerDemandWrite(t)

SpecHistory == InitSession /\ [][NextHistory]_vars

\* ------------------------------------------------------------ SpecFault
\* One object built by ReactorSimulation(conditions) and started, where the
\* conditions are a scenario's with the value of one key replaced by None:
\* __init__ (lines 68-71) stores whatever value a key of the State is given.
\* The model's State holds numbers only; a State in which a field holds None
\* carries the field's name in non_numeric, and the number the record keeps
\* for that field is not read.

\* the keys given None
FaultFields == {"temperature", "coolant_flow_rate", "simulation_time"}

NonNumeric(s) == IF "non_numeric" \in DOMAIN s THEN s.non_numeric ELSE {}

\* lines 67-71: the State after the constructor, f being the key whose
\* value was None ("none": every value was a number)
ConstructedWith(s, f) ==
  IF f = "none" THEN s ELSE s @@ [non_numeric |-> {f}]

\* lines 88-123 on such a State: arithmetic on None raises TypeError at the
\* first statement that reads the field (temperature: line 94, before any
\* write; coolant_flow_rate: line 106, after lines 99 and 102;
\* simulation_time: line 122, after check_safety_limits), and the writes
\* made before it stay
calculate_physics_raising(s) ==
  IF "temperature" \in NonNumeric(s)
  THEN [raised |-> "TypeError", state |-> s]
  ELSE IF "coolant_flow_rate" \in NonNumeric(s)
  THEN [raised |-> "TypeError", state |-> UpdatePower(UpdateFlux(s))]
  ELSE IF "simulation_time" \in NonNumeric(s)
  THEN [raised |-> "TypeError",
        state |-> check_safety_limits(
                    UpdatePressure(UpdateTemperature(
                      UpdatePower(UpdateFlux(s)))))]
  ELSE [raised |-> "none", state |-> calculate_physics(s)]

\* lines 160-176: the fields an action of the kind assigns a number to
Assigned(action_type) ==
  CASE action_type = "control_rod" -> {"control_rod_position"}
    [] action_type = "coolant_flow" -> {"coolant_flow_rate"}
    [] OTHER -> {}

\* lines 159-176 on such a State
ApplyToFaulty(s, action_type, value) ==
  LET t == ApplyToState(s, action_type, value)
  IN  IF "non_numeric" \in DOMAIN t
      THEN [t EXCEPT !.non_numeric = @ \ Assigned(action_type)]
      ELSE t

InitFault ==
  \E sc \in Scenarios, f \in FaultFields \cup {"none"} :
    OneSession(ConstructedWith(initial_conditions(sc), f))

\* lines 213-215: one pass of _simulation_loop.  Nothing in the loop or in
\* the thread's target catches an exception: one raised by
\* calculate_physics ends the thread, and self.running is left as it was
FaultStep ==
  /\ running[1]
  /\ thread[1] = "alive"
  /\ InRange(state[1])
  /\ LET r == calculate_physics_raising(state[1])
     IN  /\ state' = [state EXCEPT ![1] = r.state]
         /\ IF r.raised = "none"
            THEN UNCHANGED <<thread, lpc>>
            ELSE /\ thread' = [thread EXCEPT ![1] = "exited"]
                 /\ lpc' = [lpc EXCEPT ![1] = "raised"]
  /\ UNCHANGED <<sessions, nobj, running, action_history, cpc, loc, formed,
                 last, mentor, detached>>

\* apply_student_action, whole
FaultAction ==
  \E in \in ActionInputs :
    /\ Len(action_history[1]) < MaxActions
    /\ action_history' =
         [action_history EXCEPT ![1] =
            Append(@, ActionRecord(state[1].simulation_time, in[1], in[2],
                                   state[1]))]
    /\ state' = [state EXCEPT ![1] = ApplyToFaulty(state[1], in[1], in[2])]
    /\ UNCHANGED <<sessions, nobj, running, thread, lpc, cpc, loc, formed,
                   last, mentor, detached>>

NextFault == FaultStep \/ FaultAction

SpecFault == InitFault /\ [][NextFault]_vars

\* ------------------------------------------------------------ SpecStart
\* One object, constructed and not yet started; caller threads call
\* start_simulation and stop_simulation on it in any order and at the same
\* time, statement by statement, while the threads those calls created run
\* _simulation_loop (a pass through calculate_physics is one step here).

MaxDetached == 1   \* threads followed that the object no longer refers to

\* lines 66-86: ReactorSimulation(conditions)
InitStart ==
  \E sc \in Scenarios :
    /\ sessions = [i \in Ids |-> None]
    /\ nobj = 1
    /\ state = [o \in Objs |-> IF o = 1 THEN initial_conditions(sc)
                                        ELSE ReactorState]
    /\ running = [o \in Objs |-> FALSE]
    /\ thread = [o \in Objs |-> "none"]
    /\ lpc = [o \in Objs |-> "none"]
    /\ action_history = [o \in Objs |-> <<>>]
    /\ cpc = [t \in Callers |-> "idle"]
    /\ loc = [t \in Callers |-> NoLocals]
    /\ formed = [o \in Objs |-> {}]
    /\ last = [i \in Ids |-> Did("never", None)]
    /\ mentor = NewMentor
    /\ detached = NoDetached

\* line 199: if not self.running; when it is running, the call returns
StartTest(t) ==
  /\ Ready(t)
  /\ loc' = [loc EXCEPT ![t] = [NoLocals EXCEPT !.obj = 1, !.kind = "start"]]
  /\ cpc' = [cpc EXCEPT ![t] = IF running[1] THEN "idle" ELSE "s_flag"]
  /\ UNCHANGED <<sessions, nobj, state, running, thread, lpc,
                 action_history, formed, last, mentor, detached>>

\* line 200: self.running = True
StartFlag(t) ==
  /\ cpc[t] = "s_flag"
  /\ running' = [running EXCEPT ![1] = TRUE]
  /\ cpc' = [cpc EXCEPT ![t] = "s_thread"]
  /\ UNCHANGED <<sessions, nobj, state, thread, lpc, action_history, loc,
                 formed, last, mentor, detached>>

\* lines 201-203: a new thread is created, self.simulation_thread refers to
\* it from now on, and it is started; a thread the attribute referred to
\* before goes on running
StartThread(t) ==
  /\ cpc[t] = "s_thread"
  /\ thread[1] = "alive" => Len(detached[1]) < MaxDetached
  /\ detached' = [detached EXCEPT ![1] =
                    IF thread[1] = "alive" THEN Append(@, lpc[1]) ELSE @]
  /\ thread' = [thread EXCEPT ![1] = "alive"]
  /\ lpc' = [lpc EXCEPT ![1] = "loop"]
  /\ cpc' = [cpc EXCEPT ![t] = "idle"]
  /\ UNCHANGED <<sessions, nobj, state, running, action_history, loc,
                 formed, last, mentor>>

\* line 207: self.running = False
StopFlag(t) ==
  /\ Ready(t)
  /\ running' = [running EXCEPT ![1] = FALSE]
  /\ loc' = [loc EXCEPT ![t] = [NoLocals EXCEPT !.obj = 1, !.kind = "stop"]]
  /\ cpc' = [cpc EXCEPT ![t] = "p_join"]
  /\ UNCHANGED <<sessions, nobj, state, thread, lpc, action_history,
                 formed, last, mentor, detached>>

\* lines 208-209: with no thread the call returns; else join(timeout=2)
\* returns when the thread has ended or the two seconds have passed
StopJoin(t) ==
  /\ cpc[t] = "p_join"
  /\ thread[1] # "none" => JoinOutcomes(1) # {}
  /\ cpc' = [cpc EXCEPT ![t] = "idle"]
  /\ UNCHANGED <<sessions, nobj, state, running, thread, lpc,
                 action_history, loc, formed, last, mentor, detached>>

RemoveAt(q, i) == SubSeq(q, 1, i - 1) \o SubSeq(q, i + 1, Len(q))

\* lines 215 and 213 in the i-th thread the object no longer refers to:
\* the sleep, then the test of while self.running
DetachedTest(i) ==
  /\ i \in 1 .. Len(detached[1])
  /\ detached[1][i] = "loop"
  /\ IF running[1]
     THEN /\ InRange(state[1])
          /\ state[1].simulation_time < StepsWatched
          /\ detached' = [detached EXCEPT ![1][i] = "flux"]
     ELSE detached' = [detached EXCEPT ![1] = RemoveAt(@, i)]
  /\ UNCHANGED <<sessions, nobj, state, running, thread, lpc,
                 action_history, cpc, loc, formed, last, mentor>>

\* line 214 in that thread: calculate_physics, whole
DetachedStep(i) ==
  /\ i \in 1 .. Len(detached[1])
  /\ detached[1][i] = "flux"
  /\ state' = [state EXCEPT ![1] = calculate_physics(@)]
  /\ detached' = [detached EXCEPT ![1][i] = "loop"]
  /\ UNCHANGED <<sessions, nobj, running, thread, lpc, action_history, cpc,
                 loc, formed, last, mentor>>

NextStart ==
  \/ \E t \in Callers :
       \/ StartTest(t) \/ StartFlag(t) \/ StartThread(t)
       \/ StopFlag(t) \/ StopJoin(t)
  \/ LoopTest(1) \/ LoopStep(1)
  \/ \E i \in 1 .. MaxDetached : DetachedTest(i) \/ DetachedStep(i)

SpecStart == InitStart /\ [][NextStart]_vars

\* ----------------------------------------------------------- SpecMentor
\* simulator/ai_mentor.py: generate_personalized_feedback and
\* calculate_grade.  A dictionary is a record, and a key the dictionary
\* lacks is a field the record lacks.  Numbers in the mentor's arguments
\* and results:
\*   power_level, target_power      0.01 MW
\*   temperature                    0.01 degC
\*   timestamp                      1 s
\*   scores                         0.001 point, stored results rounded down
\*   weighted sum of the scores     0.0001 point (exact)
\*   scores as reported (rounded)   0.1 point

MaxHistory == 2      \* states in session_data['state_history']
MaxCritical == 5     \* critical items in session_data['feedback']
MaxWeaknesses == 6   \* entries of learning_analysis['weaknesses']
MaxCalls == 2        \* calls of a mentor method on the same arguments

\* dict.get(key, default)
Get(d, key, default) == IF key \in DOMAIN d THEN d[key] ELSE default

Repeat(x, n) == [i \in 1 .. n |-> x]

RECURSIVE Sum(_)
Sum(q) == IF q = <<>> THEN 0 ELSE Head(q) + Sum(Tail(q))

\* round(x, 1) of a value x held in units of which `per` make 0.1 point:
\* to the nearest tenth, an exact tie to the even one
RoundTenth(x, per) ==
  LET q == x \div per
      r == x % per
  IN  IF 2 * r > per \/ (2 * r = per /\ q % 2 = 1) THEN q + 1 ELSE q

\* ai_mentor.py lines 3-8: the names bound in the module's namespace
module_globals ==
  {"json", "Dict", "List", "Tuple", "datetime", "timedelta", "np",
   "EnhancedAIMentor"}

\* lines 44-60: the topics of knowledge_base['nuclear_principles']
nuclear_principles == {"reactivity_control", "heat_transfer", "safety_systems"}

\* lines 153-160
EmergencyItems(emergency) ==
  IF emergency > 0
  THEN <<[type |-> "critical", priority |-> 1, category |-> "safety",
          level |-> emergency]>>
  ELSE <<>>

\* lines 163-179: the items the loop over the weaknesses appends, in order
RECURSIVE WeaknessItems(_, _)
WeaknessItems(weaknesses, power) ==
  IF weaknesses = <<>> THEN <<>>
  ELSE LET w == Head(weaknesses)
           item ==
             IF w = "startup" /\ power < 3000
             THEN <<[type |-> "educational", priority |-> 2,
                     category |-> "operation"]>>
             ELSE IF w = "transient" /\ Abs(power - 5000) > 2000
             THEN <<[type |-> "suggestion", priority |-> 2,
                     category |-> "operation"]>>
             ELSE <<>>
       IN  item \o WeaknessItems(Tail(weaknesses), power)

\* lines 182-204
StyleItems(learning_style, history) ==
  IF learning_style = "rapid_experimental" /\ Len(history) > 5
  THEN LET n == Len(history)
           recent_actions == SubSeq(history, n - 4, n)
           rod_changes ==
             SelectSeq(recent_actions,
                       LAMBDA a : Get(a, "action", "None") = "control_rod")
       IN  IF Len(rod_changes) >= 3
           THEN <<[type |-> "warning", priority |-> 3,
                   category |-> "technique"]>>
           ELSE <<>>
  ELSE IF learning_style = "deliberate_calculative"
            /\ Len(history) < 2
  THEN <<[type |-> "encouragement", priority |-> 3,
          category |-> "technique"]>>
  ELSE <<>>

\* lines 207-217: draw is what random.random() and random.choice give,
\* "none" when the draw is 0.3 or more, else the topic chosen
TipItems(draw) ==
  IF draw = "none" THEN <<>>
  ELSE <<[type |-> "educational", priority |-> 4, category |-> "theory",
          topic |-> draw]>>

\* line 220: list.sort on the priority, which keeps the order of items of
\* equal priority
SortByPriority(feedback) ==
  SelectSeq(feedback, LAMBDA f : f.priority = 1)
    \o SelectSeq(feedback, LAMBDA f : f.priority = 2)
    \o SelectSeq(feedback, LAMBDA f : f.priority = 3)
    \o SelectSeq(feedback, LAMBDA f : f.priority = 4)

\* line 222: feedback[:5]
FirstFive(feedback) == SubSeq(feedback, 1, Min2(5, Len(feedback)))

\* lines 134-222 (history is the action_history argument).  Line 207
\* evaluates the name random, which nothing in the module binds: the call
\* ends there with NameError.
generate_personalized_feedback(reactor_state, student_profile, history, draw) ==
  LET power == Get(reactor_state, "power_level", 0)
      emergency == Get(reactor_state, "emergency_level", 0)
      learning_profile == Get(student_profile, "learning_analysis", <<>>)
      weaknesses == Get(learning_profile, "weaknesses", <<>>)
      learning_style == Get(learning_profile, "learning_style", "balanced")
      feedback == EmergencyItems(emergency)
                    \o WeaknessItems(weaknesses, power)
                    \o StyleItems(learning_style, history)
  IN  IF "random" \notin module_globals
      THEN [raised |-> "NameError", value |-> <<>>]
      ELSE [raised |-> "none",
            value |-> FirstFive(SortByPriority(feedback \o TipItems(draw)))]

\* line 232
safety_violations(feedback_received) ==
  Len(SelectSeq(feedback_received,
                LAMBDA f : Get(f, "type", "None") = "critical"))

\* line 235
temp_excursions(state_history) ==
  Len(SelectSeq(state_history,
                LAMBDA x : Get(x, "temperature", 0) > 32000))

\* lines 238-240, without the floor of line 241
SafetyScore_NoFloor(feedback_received, state_history) ==
  100000 - safety_violations(feedback_received) * 20000
         - temp_excursions(state_history) * 5000

\* lines 238-241
SafetyScore(feedback_received, state_history) ==
  Max2(0, 100000 - safety_violations(feedback_received) * 20000
                 - temp_excursions(state_history) * 5000)

\* the power levels of the recorded states (lines 233, 234)
PowerLevels(state_history) ==
  [i \in 1 .. Len(state_history) |-> Get(state_history[i], "power_level", 0)]

\* line 234 with lines 245, 247: np.std(levels) > limit, for more than one
\* level; std > limit  iff  n * sum(x^2) - sum(x)^2 > (limit * n)^2
StdAbove(levels, limit) ==
  LET n == Len(levels)
      squares == [i \in 1 .. n |-> levels[i] * levels[i]]
  IN  /\ n > 1
      /\ n * Sum(squares) - Sum(levels) * Sum(levels) > (limit * n) * (limit * n)

\* lines 253-254: min(power_error, 40) for the levels' sum over n states,
\* rounded so that the score it is taken from is rounded down.  A target of
\* 0 divides a numpy float by zero, which gives inf; a negative target
\* gives a negative error.
PowerPenalty(sum, n, target_power) ==
  LET a == Abs(sum - n * target_power)
      d == n * Abs(target_power)
  IN  IF target_power = 0 THEN 40000
      ELSE IF target_power < 0 THEN -MulDiv(a, 100000, d)
      ELSE IF 10 * a >= 4 * d THEN 40000
      ELSE (a * 100000 + d - 1) \div d

\* lines 244-256
EfficiencyScore(session_data) ==
  LET levels == PowerLevels(Get(session_data, "state_history", <<>>))
      target_power == Get(session_data, "target_power", 5000)
      steady == IF StdAbove(levels, 1500) THEN 70000
                ELSE IF StdAbove(levels, 1000) THEN 85000
                ELSE 100000
  IN  Max2(0, IF Sum(levels) > 0
              THEN steady - PowerPenalty(Sum(levels), Len(levels), target_power)
              ELSE steady)

\* max(...) of line 265
RECURSIVE MaxOf(_)
MaxOf(q) ==
  IF q = <<>> THEN 0
  ELSE IF Len(q) = 1 THEN Head(q)
  ELSE Max2(Head(q), MaxOf(Tail(q)))

\* lines 259-281
KnowledgeScore(session_data, student_profile, safety_score) ==
  LET actions == Get(session_data, "actions", <<>>)
      feedback_received == Get(session_data, "feedback", <<>>)
      critical_feedback ==
        SelectSeq(feedback_received,
                  LAMBDA f : Get(f, "type", "None") = "critical")
      last_critical_time ==
        MaxOf([i \in 1 .. Len(critical_feedback) |->
                 Get(critical_feedback[i], "timestamp", 0)])
      actions_after ==
        SelectSeq(actions,
                  LAMBDA a : Get(a, "timestamp", 0) > last_critical_time)
      corrective_actions ==
        Len(SelectSeq(actions_after,
                      LAMBDA a : Get(a, "action", "None")
                                   \in {"coolant_flow", "control_rod"}))
      applied == IF critical_feedback = <<>> THEN 100000
                 ELSE IF corrective_actions > 0 THEN 120000
                 ELSE 70000
      student_level == Get(student_profile, "level", "beginner")
      progress == IF student_level = "beginner" /\ safety_score > 70000
                  THEN applied + 10000
                  ELSE IF student_level = "advanced" /\ safety_score < 90000
                  THEN applied - 10000
                  ELSE applied
  IN  Max2(0, Min2(100000, progress))

\* lines 284-288, in 0.0001 point
FinalScore(safety_score, efficiency_score, knowledge_score) ==
  4 * safety_score + 3 * efficiency_score + 3 * knowledge_score

\* lines 291-300, on the sum before it is rounded
LetterGrade(final_score) ==
  IF final_score >= 900000 THEN "A"
  ELSE IF final_score >= 800000 THEN "B"
  ELSE IF final_score >= 700000 THEN "C"
  ELSE IF final_score >= 600000 THEN "D"
  ELSE "F"

\* lines 325-333
identify_strengths(safety, efficiency, knowledge) ==
  (IF safety >= 85000 THEN <<"Strong safety awareness">> ELSE <<>>)
    \o (IF efficiency >= 80000 THEN <<"Good operational efficiency">>
        ELSE <<>>)
    \o (IF knowledge >= 75000 THEN <<"Good theoretical application">>
        ELSE <<>>)

\* lines 335-343
identify_improvements(safety, efficiency, knowledge) ==
  (IF safety < 70000 THEN <<"Safety procedures need more attention">>
   ELSE <<>>)
    \o (IF efficiency < 65000 THEN <<"Work on operational stability">>
        ELSE <<>>)
    \o (IF knowledge < 60000 THEN <<"Focus on applying nuclear theory">>
        ELSE <<>>)

\* lines 227-314: the dictionary calculate_grade returns
GradeReport(session_data, student_profile) ==
  LET safety_score ==
        SafetyScore(Get(session_data, "feedback", <<>>),
                    Get(session_data, "state_history", <<>>))
      efficiency_score == EfficiencyScore(session_data)
      knowledge_score ==
        KnowledgeScore(session_data, student_profile, safety_score)
      final_score == FinalScore(safety_score, efficiency_score, knowledge_score)
  IN  [final_score |-> RoundTenth(final_score, 1000),
       letter_grade |-> LetterGrade(final_score),
       breakdown |->
         [safety |-> RoundTenth(safety_score, 100),
          efficiency |-> RoundTenth(efficiency_score, 100),
          knowledge |-> RoundTenth(knowledge_score, 100)],
       feedback_summary |->
         [strengths |->
            identify_strengths(safety_score, efficiency_score, knowledge_score),
          areas_for_improvement |->
            identify_improvements(safety_score, efficiency_score,
                                  knowledge_score)]]

\* calculate_grade keeping what it is given in feedback_history and
\* counting what it kept as feedback of the session
calculate_grade_Remembering(self, session_data, student_profile) ==
  [self |-> [self EXCEPT !.feedback_history =
                           @ \o Get(session_data, "feedback", <<>>)],
   session_data |-> session_data,
   student_profile |-> student_profile,
   report |->
     GradeReport([session_data EXCEPT !.feedback = @ \o self.feedback_history],
                 student_profile)]

\* lines 224-314: the mentor and the two arguments as the call leaves them,
\* and the report; no statement assigns to self or into an argument
calculate_grade(self, session_data, student_profile) ==
  [self |-> self,
   session_data |-> session_data,
   student_profile |-> student_profile,
   report |-> GradeReport(session_data, student_profile)]

\* the states a session_data['state_history'] is made of
StateSamples ==
  {[power_level |-> 5000, temperature |-> 32000],
   [power_level |-> 3326, temperature |-> 30000],
   [power_level |-> 9000, temperature |-> 32100]}

RECURSIVE SeqsUpTo(_, _)
SeqsUpTo(S, n) ==
  IF n = 0 THEN {<<>>}
  ELSE LET shorter == SeqsUpTo(S, n - 1)
       IN  shorter \cup {Append(q, x) : q \in shorter, x \in S}

FeedbackLists ==
  {Repeat([type |-> "critical", timestamp |-> 2], n) : n \in 0 .. MaxCritical}
    \cup {<<[type |-> "warning", timestamp |-> 2]>>,
          <<[type |-> "critical"]>>,
          <<[type |-> "critical", timestamp |-> 0]>>}

\* reactor_logic.py lines 152-157: the record apply_student_action appends
\* when the session's simulation_time is `time` (in time steps of 0.1 s)
AppliedAction(time, action_type, value) ==
  ActionRecord(time, action_type, value,
               [initial_conditions("startup") EXCEPT !.simulation_time = time])

\* session_data['actions']: records that carry a timestamp, and a session's
\* own action_history
GradedActionLists ==
  {<<>>,
   <<[action |-> "control_rod", timestamp |-> 3]>>,
   <<[action |-> "control_rod", timestamp |-> 1]>>,
   <<[action |-> "scram", timestamp |-> 3]>>,
   <<AppliedAction(3, "control_rod", 60)>>,
   <<AppliedAction(1, "scram", 0), AppliedAction(25, "coolant_flow", 80)>>}

SessionDatas ==
  LET base ==
        {[state_history |-> h, actions |-> a, feedback |-> f] :
           h \in SeqsUpTo(StateSamples, MaxHistory),
           a \in GradedActionLists, f \in FeedbackLists}
  IN  base \cup {b @@ [target_power |-> t] : b \in base, t \in {5000, -5000}}

Levels == {"beginner", "advanced"}

Styles == {"balanced", "rapid_experimental", "deliberate_calculative"}

WeaknessLists ==
  {Repeat("startup", n) : n \in 0 .. MaxWeaknesses}
    \cup {<<"transient", "startup">>}

\* request.user.studentprofile as the views pass it on
StudentProfiles ==
  {<<>>} \cup {[level |-> l] : l \in Levels}

FeedbackProfiles ==
  {[learning_analysis |-> [weaknesses |-> w, learning_style |-> st]] :
     w \in WeaknessLists, st \in Styles}

\* reactor states as get_state_dict gives them to the mentor
MentorStates ==
  {[power_level |-> p, emergency_level |-> e] :
     p \in {100, 9000}, e \in {0, 4}}

MentorHistories ==
  {Repeat([action |-> "control_rod"], n) : n \in {0, 6}}

Draws == {"none"} \cup nuclear_principles

\* the mentor object itself, as a method sees it through self
MentorSelf ==
  [student_profiles |-> mentor.student_profiles,
   feedback_history |-> mentor.feedback_history]

\* a caller holds the arguments of a calculate_grade call, or those of a
\* generate_personalized_feedback call
InitMentor ==
  \/ \E sd \in SessionDatas, sp \in StudentProfiles :
       OneSessionWith(initial_conditions("startup"),
                      [NewMentor EXCEPT !.given =
                         [for |-> "calculate_grade", session_data |-> sd,
                          student_profile |-> sp]])
  \/ \E rs \in MentorStates, sp \in FeedbackProfiles,
        ah \in MentorHistories :
       OneSessionWith(initial_conditions("startup"),
                      [NewMentor EXCEPT !.given =
                         [for |-> "generate_personalized_feedback",
                          reactor_state |-> rs, student_profile |-> sp,
                          action_history |-> ah]])

\* calculate_grade is called on the arguments held
GradeCall ==
  /\ mentor.given.for = "calculate_grade"
  /\ mentor.calls < MaxCalls
  /\ LET r == calculate_grade(MentorSelf, mentor.given.session_data,
                              mentor.given.student_profile)
     IN  mentor' =
           [student_profiles |-> r.self.student_profiles,
            feedback_history |-> r.self.feedback_history,
            given |-> [for |-> "calculate_grade",
                       session_data |-> r.session_data,
                       student_profile |-> r.student_profile],
            calls |-> mentor.calls + 1,
            call |-> [method |-> "calculate_grade",
                      session_data |-> mentor.given.session_data,
                      student_profile |-> mentor.given.student_profile,
                      report |-> r.report]]
  /\ UNCHANGED <<sessions, nobj, state, running, thread, lpc,
                 action_history, cpc, loc, formed, last, detached>>

\* generate_personalized_feedback is called on the arguments held
FeedbackCall ==
  /\ mentor.given.for = "generate_personalized_feedback"
  /\ mentor.calls < MaxCalls
  /\ \E draw \in Draws :
       LET r == generate_personalized_feedback(
                  mentor.given.reactor_state, mentor.given.student_profile,
                  mentor.given.action_history, draw)
       IN  mentor' =
             [mentor EXCEPT
                !.calls = @ + 1,
                !.call = [method |-> "generate_personalized_feedback",
                          raised |-> r.raised, value |-> r.value]]
  /\ UNCHANGED <<sessions, nobj, state, running, thread, lpc,
                 action_history, cpc, loc, formed, last, detached>>

NextMentor == GradeCall \/ FeedbackCall

SpecMentor == InitMentor /\ [][NextMentor]_vars

\* ================================================================ claims

\* a step of caller t in which get_session returns
GetReturns(t) ==
  /\ Ready(t)
  /\ loc'[t] # loc[t]
  /\ loc'[t].kind = "get"

\* C1: once destroy_session(id) has returned, and until a create_session
\* stores under the id again, get_session(id) returns None; so it does for
\* an id nothing was ever stored under; and get_session leaves the registry
\* as it was.
C1_GetAfterDestroy ==
  [][\A t \in Callers :
       GetReturns(t) =>
         /\ sessions' = sessions
         /\ last[loc'[t].id].op # "stored" => loc'[t].result = None]_vars

\* C1 witness: a get_session that came after a destroy_session which removed
\* the entry, and returned None
C1_Witness ==
  \E t \in Callers :
    /\ cpc[t] = "idle"
    /\ loc[t].kind = "get"
    /\ loc[t].seen = "destroyed"
    /\ loc[t].result = None

\* C2: whatever the interleaving, an id whose last registry operation is the
\* store of a create_session is mapped to the object that call built, and
\* two ids are never mapped to the same object.
C2_CreatesKeepTheirEntries ==
  /\ \A i \in Ids : last[i].op = "stored" => sessions[i] = last[i].obj
  /\ \A i, j \in Ids :
       i # j /\ sessions[i] # None => sessions[i] # sessions[j]

\* C2 witness: two create_session calls with distinct ids have returned, one
\* of them built its object while the other was between building and
\* storing, and both ids are mapped to the objects built for them
C2_Witness ==
  \E t, u \in Callers :
    /\ t # u
    /\ cpc[t] = "idle" /\ cpc[u] = "idle"
    /\ loc[t].kind = "create" /\ loc[u].kind = "create"
    /\ loc[t].id # loc[u].id
    /\ loc[u].overlap
    /\ sessions[loc[t].id] = loc[t].obj
    /\ sessions[loc[u].id] = loc[u].obj

\* C3: when stop_simulation has returned inside destroy_session (the caller
\* is about to remove the entry), the object's stepping thread has left its
\* loop, so no calculate_physics is in flight or still to come.
C3_StopHaltsStepping ==
  \A t \in Callers : cpc[t] = "d_del" => thread[loc[t].obj] = "exited"

\* C4: a physics step and an action on the same session exclude each other:
\* never is calculate_physics part-way through its writes while
\* apply_student_action is part-way through its own.
C4_StepAndActionExclusive ==
  \A t \in Callers :
    ActionInFlight(t) => ~StepInFlight(loc[t].obj)

\* C5: every finished snapshot (the dictionary get_state_dict returns, the
\* state_before an action is about to record) is a state the session had
\* with no step and no action part-way through.
C5_SnapshotsAreWhole ==
  \A t \in Callers :
    cpc[t] \in {"a_append", "g_done"} => loc[t].snap \in formed[loc[t].obj]

Clamped(v, lo, hi) == IF v < lo THEN lo ELSE IF v > hi THEN hi ELSE v

\* C6: control_rod_position is always within 0..100 and coolant_flow_rate
\* within 0..150, and after a control_rod or coolant_flow action the field
\* holds the submitted value brought into that range.
C6_ControlsWithinClampRange ==
  \A o \in Objs :
    LET s == state[o]
        h == action_history[o]
    IN  /\ s.control_rod_position \in 0 .. 100
        /\ s.coolant_flow_rate \in 0 .. 150
        /\ h # <<>> /\ h[Len(h)].action = "control_rod" =>
             s.control_rod_position = Clamped(h[Len(h)].value, 0, 100)
        /\ h # <<>> /\ h[Len(h)].action = "coolant_flow" =>
             s.coolant_flow_rate = Clamped(h[Len(h)].value, 0, 150)

\* C6 witness: a control_rod action with a value above 100 was applied after
\* a physics step, and the rods stand at 100
C6_Witness ==
  LET h == action_history[1]
  IN  /\ h # <<>>
      /\ h[Len(h)].action = "control_rod"
      /\ h[Len(h)].value > 100
      /\ h[Len(h)].time >= 1
      /\ state[1].control_rod_position = 100

\* a step of the model in which object o completes one physics step
StepTaken(o) == state'[o].simulation_time = state[o].simulation_time + 1

\* C7: a physics step taken with temperature and pressure both above their
\* hard limits ends with emergency_level 4 and the shutdown flag set.
C7_OverLimitsTripOnNextStep ==
  [][\A o \in Objs :
       /\ StepTaken(o)
       /\ state[o].temperature > temp_limit * 100
       /\ state[o].pressure > pressure_limit * 10
       => /\ state'[o].emergency_level = 4
          /\ state'[o].scram_status]_vars

\* C8: a step whose safety check finds temperature or pressure above its
\* hard limit leaves the rods at 0 and the shutdown flag set, and a step
\* taken while the flag is set leaves the rods at 0.
C8_AutoTripInsertsRods ==
  [][\A o \in Objs :
       StepTaken(o) =>
         /\ OverHardLimit(state'[o]) =>
              state'[o].control_rod_position = 0 /\ state'[o].scram_status
         /\ state[o].scram_status => state'[o].control_rod_position = 0]_vars

\* C9: emergency_level 4 implies the shutdown flag.
C9_LevelFourImpliesScram ==
  \A o \in Objs : state[o].emergency_level = 4 => state[o].scram_status

\* the severity section 4.1 of the specification assigns to the values
ImpliedSeverity(s) ==
  IF s.temperature > temp_limit * 100 \/ s.pressure > pressure_limit * 10
  THEN 4
  ELSE IF s.temperature > temp_limit * 95
            \/ s.pressure * 10 > pressure_limit * 95
  THEN 3
  ELSE IF s.temperature > temp_limit * 85 \/ s.pressure > pressure_limit * 9
  THEN 2
  ELSE IF s.power_level * 10 > power_limit * 9 THEN 1
  ELSE 0

\* C10: in every state, the initial one of each preset included,
\* emergency_level is in 0..4 and is the severity the current power,
\* temperature and pressure imply.
C10_LevelIsImpliedSeverity ==
  \A o \in 1 .. nobj :
    /\ state[o].emergency_level \in 0 .. 4
    /\ state[o].emergency_level = ImpliedSeverity(state[o])

\* C11: a physics step taken from a state whose temperature, pressure and
\* neutron flux are all non-negative (rods and coolant flow being within
\* their ranges, as they always are) ends with all three non-negative.
C11_StepKeepsQuantitiesNonNegative ==
  [][\A o \in Objs :
       /\ StepTaken(o)
       /\ state[o].temperature >= 0
       /\ state[o].pressure >= 0
       /\ state[o].neutron_flux >= 0
       => /\ state'[o].temperature >= 0
          /\ state'[o].pressure >= 0
          /\ state'[o].neutron_flux >= 0]_vars

\* the session was created from the 'startup' preset, the caller then set
\* the rods to 60 and the coolant flow to 80 before any step, and applied
\* nothing else since
HeldAtSixtyEighty(o) ==
  LET h == action_history[o]
  IN  /\ Len(h) = 2
      /\ h[1].state_before = initial_conditions("startup")
      /\ {h[1].action, h[2].action} = {"control_rod", "coolant_flow"}
      /\ \A i \in 1 .. 2 :
           /\ h[i].time = 0
           /\ h[i].value = IF h[i].action = "control_rod" THEN 60 ELSE 80
      /\ state[o].control_rod_position = 60
      /\ state[o].coolant_flow_rate = 80

\* C12: from the 'startup' preset with the rods held at 60 and the coolant
\* flow at 80, every physics step raises the power level and ends with the
\* temperature below temp_limit and no automatic trip.
C12_StartupRampStaysBelowLimit ==
  [][\A o \in Objs :
       StepTaken(o) /\ HeldAtSixtyEighty(o) =>
         /\ state'[o].power_level > state[o].power_level
         /\ state'[o].temperature < temp_limit * 100
         /\ state'[o].emergency_level # 4
         /\ ~state'[o].scram_status]_vars

\* the action kinds of section 3 of the specification
ClosedKinds ==
  {"control_rod", "coolant_flow", "scram", "reset_scram", "power_demand"}

\* C13: an action whose kind is outside the closed set is rejected without
\* touching the session: the State and the action history stay as they
\* were, so no record of such a kind is ever in a history.
C13_UnknownKindRejected ==
  \A o \in Objs :
    \A i \in 1 .. Len(action_history[o]) :
      action_history[o][i].action \in ClosedKinds

\* the 'time' fields along a history never decrease
TimeOrdered(h) ==
  \A i, j \in 1 .. Len(h) : i < j => h[i].time <= h[j].time

\* C14: action_history is append-only and ordered by simulation time: a
\* step of the program either leaves a history as it was or adds one record
\* at its end, and the 'time' fields never decrease along the list,
\* whatever the interleaving of action calls and physics steps.
C14_HistoryAppendOnlyTimeOrdered ==
  [][\A o \in Objs :
       /\ \/ action_history'[o] = action_history[o]
          \/ /\ Len(action_history'[o]) = Len(action_history[o]) + 1
             /\ SubSeq(action_history'[o], 1, Len(action_history[o]))
                  = action_history[o]
       /\ TimeOrdered(action_history'[o])]_vars

\* C15: stop_simulation returns after a bounded wait: a caller that has
\* entered the join of line 209 always comes out of it, also when the
\* stepping thread never leaves its loop or stays inside a step.
C15_StopReturns ==
  \A t \in Callers : (cpc[t] = "d_join") ~> (cpc[t] = "d_del")

\* C15 witness: stop_simulation has returned to destroy_session while the
\* object's thread is still alive, inside a pass of its loop
C15_Witness ==
  \E t \in Callers :
    /\ cpc[t] = "d_del"
    /\ thread[loc[t].obj] = "alive"
    /\ lpc[loc[t].obj] = "flux"

\* C16: a step of session A and an action applied to A leave the State and
\* the action history of every other session B as they were.
C16_SessionsAreSeparate ==
  [][\A A, B \in Objs :
       /\ A # B
       /\ StepTaken(A) \/ action_history'[A] # action_history[A]
       => /\ state'[B] = state[B]
          /\ action_history'[B] = action_history[B]]_vars

\* C16 witness: both sessions were stepped and acted on, one had its rods
\* set and the other its coolant flow, and each State shows only the
\* action applied to it
C16_Witness ==
  /\ state[1].simulation_time = 1 /\ state[2].simulation_time = 1
  /\ Len(action_history[1]) = 1 /\ Len(action_history[2]) = 1
  /\ action_history[1][1].action = "control_rod"
  /\ action_history[2][1].action = "coolant_flow"
  /\ state[1].control_rod_position = 100
  /\ state[2].coolant_flow_rate = 0
  /\ state[1].coolant_flow_rate =
       action_history[1][1].state_before.coolant_flow_rate
  /\ state[2].control_rod_position =
       action_history[2][1].state_before.control_rod_position

\* the priorities never decrease along a feedback list
PrioritySorted(feedback) ==
  \A i, j \in 1 .. Len(feedback) :
    i < j => feedback[i].priority <= feedback[j].priority

\* C17: for every reactor state, profile and action history, a call of
\* generate_personalized_feedback gives back a list, the list is sorted by
\* ascending priority, and it has at most 5 items.
C17_FeedbackSortedAtMostFive ==
  mentor.call.method = "generate_personalized_feedback" =>
    /\ mentor.call.raised = "none"
    /\ PrioritySorted(mentor.call.value)
    /\ Len(mentor.call.value) <= 5

\* a step of the model in which a call of calculate_grade returns
GradeReturns ==
  /\ mentor'.calls = mentor.calls + 1
  /\ mentor'.call.method = "calculate_grade"

\* C18: a call of calculate_grade leaves the mentor's own state and the two
\* arguments as they were, and a call made on the arguments of the call
\* before it returns the report that call returned.
C18_GradeIsDeterministic ==
  [][GradeReturns =>
       /\ mentor'.student_profiles = mentor.student_profiles
       /\ mentor'.feedback_history = mentor.feedback_history
       /\ mentor'.given = mentor.given
       /\ mentor.call.method = "calculate_grade" =>
            mentor'.call.report = mentor.call.report]_vars

\* C18 witness: calculate_grade was called twice on the same session data,
\* which hold critical feedback and recorded states, and the second call
\* has returned
C18_Witness ==
  /\ mentor.calls = 2
  /\ mentor.call.method = "calculate_grade"
  /\ mentor.call.session_data = mentor.given.session_data
  /\ Len(mentor.call.session_data.feedback) >= 2
  /\ Len(mentor.call.session_data.state_history) >= 2
  /\ mentor.call.report.letter_grade = "F"

\* the letter the cutoffs give to a score in tenths of a point
CutoffGrade(tenths) ==
  IF tenths >= 900 THEN "A"
  ELSE IF tenths >= 800 THEN "B"
  ELSE IF tenths >= 700 THEN "C"
  ELSE IF tenths >= 600 THEN "D"
  ELSE "F"

\* C19: in every report, final_score is 0.4 * safety + 0.3 * efficiency
\* + 0.3 * knowledge rounded to one decimal, and letter_grade is the letter
\* the cutoffs 90 / 80 / 70 / 60 give to that reported final_score.
C19_LetterMatchesReportedScore ==
  mentor.call.method = "calculate_grade" =>
    LET sd == mentor.call.session_data
        safety == SafetyScore(sd.feedback, sd.state_history)
        efficiency == EfficiencyScore(sd)
        knowledge == KnowledgeScore(sd, mentor.call.student_profile, safety)
        report == mentor.call.report
    IN  /\ report.final_score =
             RoundTenth(4 * safety + 3 * efficiency + 3 * knowledge, 1000)
        /\ report.letter_grade = CutoffGrade(report.final_score)

\* the number of items of a list that have the key and satisfy the test
HowMany(q, key, Test(_)) ==
  Cardinality({i \in 1 .. Len(q) : key \in DOMAIN q[i] /\ Test(q[i][key])})

\* C20: the safety sub-score of every report is
\* max(0, 100 - 20 * (critical feedback items) - 5 * (recorded states with
\* temperature above 320)): never below 0, and 100 exactly when there is
\* neither a critical item nor such a state.
C20_SafetyScoreFormula ==
  mentor.call.method = "calculate_grade" =>
    LET sd == mentor.call.session_data
        criticals == HowMany(sd.feedback, "type", LAMBDA v : v = "critical")
        excursions ==
          HowMany(sd.state_history, "temperature", LAMBDA v : v > 32000)
        raw == 1000 - 200 * criticals - 50 * excursions
        safety == mentor.call.report.breakdown.safety
    IN  /\ safety = IF raw < 0 THEN 0 ELSE raw
        /\ safety >= 0
        /\ safety = 1000 <=> criticals = 0 /\ excursions = 0

\* C20 witness: a session with five critical items and a state above 320
\* degrees was graded, and its safety sub-score is 0
C20_Witness ==
  /\ mentor.call.method = "calculate_grade"
  /\ Len(mentor.call.session_data.feedback) = 5
  /\ \E i \in 1 .. Len(mentor.call.session_data.state_history) :
       mentor.call.session_data.state_history[i].temperature > 32000
  /\ mentor.call.report.breakdown.safety = 0

\* the session's own action history: every record is one that
\* apply_student_action wrote
OwnActions(actions) ==
  \A i \in 1 .. Len(actions) :
    DOMAIN actions[i] = {"time", "action", "value", "state_before"}

\* a coolant_flow or control_rod action was applied after the time (in
\* seconds) of the last critical item; a record's time is in steps of 0.1 s
CorrectionFollowed(actions, feedback) ==
  LET criticals == {i \in 1 .. Len(feedback) : feedback[i].type = "critical"}
      last_time ==
        CHOOSE t \in {feedback[i].timestamp : i \in criticals} :
          \A i \in criticals : feedback[i].timestamp <= t
  IN  \E i \in 1 .. Len(actions) :
        /\ actions[i].action \in {"coolant_flow", "control_rod"}
        /\ actions[i].time > 10 * last_time

\* C21: when a session had critical feedback and its own action history is
\* graded, the knowledge sub-score starts from 100 + 20 if a coolant_flow or
\* control_rod action was applied after the last critical item's time, and
\* from 100 - 30 only if none was; the level adjustment (+10 for a beginner
\* with safety above 70, -10 for an advanced student with safety below 90)
\* and the clamp to [0, 100] follow.
C21_CorrectionAfterCriticalIsRewarded ==
  mentor.call.method = "calculate_grade" =>
    LET sd == mentor.call.session_data
        profile == mentor.call.student_profile
        level == IF "level" \in DOMAIN profile THEN profile.level
                 ELSE "beginner"
        safety == mentor.call.report.breakdown.safety
        timed == \A i \in 1 .. Len(sd.feedback) :
                   "timestamp" \in DOMAIN sd.feedback[i]
        critical == \E i \in 1 .. Len(sd.feedback) :
                      sd.feedback[i].type = "critical"
        applied == IF CorrectionFollowed(sd.actions, sd.feedback)
                   THEN 1200 ELSE 700
        adjusted == IF level = "beginner" /\ safety > 700 THEN applied + 100
                    ELSE IF level = "advanced" /\ safety < 900
                    THEN applied - 100
                    ELSE applied
    IN  (OwnActions(sd.actions) /\ timed /\ critical) =>
          mentor.call.report.breakdown.knowledge =
            Max2(0, Min2(1000, adjusted))

\* C22: the error between average power and target power lowers the
\* efficiency sub-score only when the session data carry a target power;
\* without one the sub-score is 100, 85 or 70 by the standard deviation of
\* the power levels alone (above 15: 70, above 10: 85).
C22_NoTargetNoPowerPenalty ==
  mentor.call.method = "calculate_grade" =>
    LET sd == mentor.call.session_data
        levels == [i \in 1 .. Len(sd.state_history) |->
                     sd.state_history[i].power_level]
    IN  "target_power" \notin DOMAIN sd =>
          mentor.call.report.breakdown.efficiency =
            IF StdAbove(levels, 1500) THEN 700
            ELSE IF StdAbove(levels, 1000) THEN 850
            ELSE 1000

\* a reported score (in 0.1 point) lies in [0, 100]
InScoreRange(tenths) == 0 <= tenths /\ tenths <= 1000

\* C23: in every report the safety, efficiency and knowledge sub-scores and
\* the final score lie in [0, 100], whatever the recorded states, the
\* feedback list and the student's level are.
C23_ScoresWithinZeroToHundred ==
  mentor.call.method = "calculate_grade" =>
    LET report == mentor.call.report
    IN  /\ InScoreRange(report.breakdown.safety)
        /\ InScoreRange(report.breakdown.efficiency)
        /\ InScoreRange(report.breakdown.knowledge)
        /\ InScoreRange(report.final_score)

\* the scores of C23 for session data whose target power is absent or
\* positive
ScoresInRangeForPositiveTarget ==
  (/\ mentor.call.method = "calculate_grade"
   /\ ("target_power" \in DOMAIN mentor.call.session_data
          => mentor.call.session_data.target_power > 0))
    => C23_ScoresWithinZeroToHundred

\* C24: a session's simulation_time never decreases: a physics step (a
\* change of the State that is not part of an action) adds exactly one time
\* step to it, and apply_student_action (which appends to the history),
\* whatever the kind of the action, leaves it unchanged.
C24_TimeAdvancesOnlyByStepping ==
  [][\A o \in Objs :
       LET before == state[o].simulation_time
           after == state'[o].simulation_time
           acted == action_history'[o] # action_history[o] \/ cpc' # cpc
       IN  /\ after >= before
           /\ acted => after = before
           /\ (~acted /\ state'[o] # state[o]) => after = before + 1]_vars

\* C24 witness: steps and actions alternated: a scram at time 1 and a
\* power_demand at time 2 are in the history, and a third step followed
C24_Witness ==
  /\ state[1].simulation_time = 3
  /\ Len(action_history[1]) = 2
  /\ action_history[1][1].action = "scram"
  /\ action_history[1][1].time = 1
  /\ action_history[1][2].action = "power_demand"
  /\ action_history[1][2].time = 2

\* C25: a pass of the stepping loop in which calculate_physics fails leaves
\* the session tripped (scram_status set, emergency_level 4), and a session
\* is never flagged running while no stepping thread of it is alive.
C25_FailedStepForcesTrip ==
  \A o \in Objs :
    /\ lpc[o] = "raised" =>
         state[o].scram_status /\ state[o].emergency_level = 4
    /\ running[o] => thread[o] = "alive"

\* a step of caller t in which destroy_session ends, by returning or by an
\* exception
DestroyEnds(t) ==
  /\ loc'[t].kind = "destroy"
  /\ cpc'[t] \in {"idle", "raised"}
  /\ cpc'[t] # cpc[t] \/ loc'[t] # loc[t]

\* C26: destroy_session never raises, whether the id is registered, was
\* never registered or was destroyed before, and also when two callers
\* destroy the same id at the same time; when it returns, the id is absent
\* from the registry.
C26_DestroyNeverRaises ==
  [][\A t \in Callers :
       DestroyEnds(t) =>
         /\ cpc'[t] # "raised"
         /\ sessions'[loc'[t].id] = None]_vars

\* the threads that are running _simulation_loop of object o
LoopsAlive(o) ==
  (IF thread[o] = "alive" THEN 1 ELSE 0) + Len(detached[o])

\* C27: whatever the order of the start_simulation and stop_simulation
\* calls on one simulation (two starts at the same time, a start after a
\* stop whose join timed out), at most one stepping loop is alive on its
\* State at any time.
C27_AtMostOneLoopAlive ==
  \A o \in Objs : LoopsAlive(o) <= 1

\* object o goes on stepping: its thread is alive and its flag is set
KeepsStepping(o) == thread[o] = "alive" /\ running[o]

\* C28: after any sequence of create_session and destroy_session calls
\* (every call has returned), create_session with an id that is already
\* registered included, every simulation that keeps stepping is the value
\* of some registry entry.
C28_SteppingSimulationsAreRegistered ==
  (\A t \in Callers : cpc[t] = "idle") =>
    \A o \in 1 .. nobj :
      KeepsStepping(o) => \E id \in Ids : sessions[id] = o

\* C29: generate_personalized_feedback completes and returns a list for
\* every reactor state, student profile and action history, whether or not
\* the theory-tip branch is drawn: no call ends in an exception.
C29_FeedbackAlwaysReturns ==
  mentor.call.method = "generate_personalized_feedback" =>
    /\ mentor.call.raised = "none"
    /\ DOMAIN mentor.call.value = 1 .. Len(mentor.call.value)

\* a step in which apply_student_action ran for a power_demand action
PowerDemandApplied ==
  /\ Len(action_history'[1]) = Len(action_history[1]) + 1
  /\ action_history'[1][Len(action_history'[1])].action = "power_demand"

\* C30: a power_demand action changes the State only in
\* control_rod_position: the rods go up by 5, to at most 100, when power is
\* below 95% of the target, down by 5, to at least 0, when power is above
\* 105% of the target, and stay inside that band; every other field (power,
\* temperature, pressure, flux, coolant flow, shutdown flag, emergency
\* level, time) is left as it was.  (For whole numbers p and n,
\* 100 * p < n iff p <= (n - 1) \div 100, and 100 * p > n iff
\* p >= n \div 100 + 1.)
C30_PowerDemandMovesRodsByFive ==
  [][PowerDemandApplied =>
       LET before == state[1]
           after == state'[1]
           target == action_history'[1][Len(action_history'[1])].value
           rods == before.control_rod_position
           expected ==
             IF before.power_level <= (95 * target - 1) \div 100
             THEN (IF rods + 5 > 100 THEN 100 ELSE rods + 5)
             ELSE IF before.power_level >= (105 * target) \div 100 + 1
             THEN (IF rods - 5 < 0 THEN 0 ELSE rods - 5)
             ELSE rods
       IN  /\ after = [before EXCEPT !.control_rod_position = expected]
           /\ after.control_rod_position - rods \in {-5, 0, 5}
                \/ after.control_rod_position \in {0, 100}]_vars

\* C30 witness: with the rods at 100 and power below the target's band, a
\* power_demand was applied and the rods are still at 100
C30_Witness ==
  /\ Len(action_history[1]) = 2
  /\ action_history[1][2].action = "power_demand"
  /\ action_history[1][2].state_before.control_rod_position = 100
  /\ action_history[1][2].state_before.power_level
       < action_history[1][2].value \div 2
  /\ action_history[1][2].time = state[1].simulation_time
  /\ state[1].control_rod_position = 100

====
